---- MODULE Spec2Model ----
(***************************************************************************)
(* Model of astrology_compatibility_calculator.py: the birth and year      *)
(* fetches, calculate_score, get_zodiac, and the main run that scores      *)
(* every day, normalises the scores and writes the report.                 *)
(*                                                                         *)
(* Units.  TLC has integers only, so every float of the program is held    *)
(* in a fixed-point unit:                                                  *)
(*   longitudes, angles, orbs : hundredths of a degree (30 deg = 3000)     *)
(*   score_sum                : quarters (val * weight is a multiple of    *)
(*                              0.25; 5950 = 23800 quarters)               *)
(*   scores                   : hundredths (50.0 = 5000), the two decimals *)
(*                              round(.., 2) keeps                         *)
(*   Score_Prozent            : 1/10000 of a percent (100 % = 1000000)     *)
(* A float is a record [k, v]: k = "num" with the value v, k = "nan", or   *)
(* k = "inf" with the sign v.                                              *)
(***************************************************************************)
EXTENDS Integers, Sequences, FiniteSets

VARIABLES
    pc,             \* position of the main run
    eph_birth,      \* the provider's replies to the 7 birth requests
    eph_year,       \* the provider's replies to the 7 year requests
    birth_pos,      \* birth_pos (line 152)
    dates,          \* dates (line 153): the returned timestamps, as day numbers
    year_data,      \* year_data (line 153): body -> sequence of floats
    i,              \* number of days the loop of line 156 has completed
    scores,         \* scores (line 155)
    mars_signs,     \* mars_signs (line 155)
    venus_signs,    \* venus_signs (line 155)
    hits,           \* calculate_score's local hits at its last return
    score_sum,      \* calculate_score's local score_sum at its last return
    score_prozent,  \* df['Score_Prozent'] (line 173)
    file_written,   \* whether df.to_excel (line 187) has written the report
    fn_pc,          \* position of the direct call of a pure function
    fn_a,           \* first longitude argument of the direct call
    fn_b,           \* second longitude argument of the direct call
    fn_out,         \* result of the direct call
    fn_out2         \* result of the companion call (swapped or shifted argument)

mainvars == <<pc, eph_birth, eph_year, birth_pos, dates, year_data, i, scores,
              mars_signs, venus_signs, hits, score_sum, score_prozent, file_written>>
fnvars == <<fn_pc, fn_a, fn_b, fn_out, fn_out2>>
vars == <<mainvars, fnvars>>

----------------------------------------------------------------------------
(* Bounds *)

\* Number of daily timestamps the provider returns for the year (365 or 366
\* in the program).
NDays == 3

\* The directly called pure functions take longitudes from -MaxBand*30 deg to
\* (MaxBand+1)*30 deg.
MaxBand == 13

----------------------------------------------------------------------------
(* Floats *)

Num(x) == [k |-> "num", v |-> x]
NaN == [k |-> "nan", v |-> 0]
Inf(s) == [k |-> "inf", v |-> s]
IsNum(a) == a.k = "num"

\* a - b, abs(a), a % m on longitudes (a number or nan; nan propagates).
FSub(a, b) == IF IsNum(a) /\ IsNum(b) THEN Num(a.v - b.v) ELSE NaN
FAbs(a) == IF IsNum(a) THEN Num(IF a.v < 0 THEN -a.v ELSE a.v) ELSE NaN
\* Python's and numpy's %: the result has the sign of the (positive) divisor.
FMod(a, m) == IF IsNum(a) THEN Num(a.v % m) ELSE NaN

\* Comparisons: every comparison with nan is false.
FLt(a, b) == IsNum(a) /\ IsNum(b) /\ a.v < b.v
FLe(a, b) == IsNum(a) /\ IsNum(b) /\ a.v <= b.v
FGt(a, b) == IsNum(a) /\ IsNum(b) /\ a.v > b.v

Sign(x) == IF x < 0 THEN -1 ELSE 1
AbsInt(x) == IF x < 0 THEN -x ELSE x

\* a / b * 100 of line 173 on two finite scores in hundredths, the result in
\* 1/10000 percent: 0/0 is nan, x/0 is +-inf (pandas divides without raising),
\* otherwise the quotient is cut to 4 decimals before the multiplication.
FDivTimes100(a, b) ==
    IF b = 0
    THEN IF a = 0 THEN NaN ELSE Inf(Sign(a))
    ELSE Num(Sign(a) * Sign(b) * ((AbsInt(a) * 10000) \div AbsInt(b)) * 100)

\* round(x, 2) of a non-negative quotient n/d already scaled to hundredths:
\* to the nearest integer, a tie to the even one.
RoundDiv(n, d) ==
    LET q == n \div d
        r == n % d
    IN  IF 2 * r < d THEN q
        ELSE IF 2 * r > d THEN q + 1
        ELSE IF q % 2 = 0 THEN q ELSE q + 1

\* np.log1p(h) * 10000 for h = 1 .. 49, rounded to the nearest integer.
Log1pTable ==
    << 6931, 10986, 13863, 16094, 17918, 19459, 20794,
       21972, 23026, 23979, 24849, 25649, 26391, 27081,
       27726, 28332, 28904, 29444, 29957, 30445, 30910,
       31355, 31781, 32189, 32581, 32958, 33322, 33673,
       34012, 34340, 34657, 34965, 35264, 35553, 35835,
       36109, 36376, 36636, 36889, 37136, 37377, 37612,
       37842, 38067, 38286, 38501, 38712, 38918, 39120 >>

----------------------------------------------------------------------------
(* Configuration *)

\* The keys of PLANET_IDS in their insertion order, the order of .items().
PLANET_IDS == <<"Sonne", "Mond", "Merkur", "Venus", "Mars", "Jupiter", "Saturn">>
Planets == {PLANET_IDS[n] : n \in 1..Len(PLANET_IDS)}

PRIORITY_PLANETS == {"Sonne", "Venus", "Mars"}

\* (angle, orb, base score), angle and orb in hundredths of a degree.
ASPECTS == << <<0, 800, 100>>, <<6000, 600, 70>>, <<9000, 800, 25>>,
              <<12000, 800, 90>>, <<18000, 800, 40>> >>

\* (start, name), start in hundredths of a degree; "Loewe" and "Schuetze"
\* stand for the source's names with umlauts.
signs == << <<0, "Widder">>, <<3000, "Stier">>, <<6000, "Zwillinge">>,
            <<9000, "Krebs">>, <<12000, "Loewe">>, <<15000, "Jungfrau">>,
            <<18000, "Waage">>, <<21000, "Skorpion">>, <<24000, "Schuetze">>,
            <<27000, "Steinbock">>, <<30000, "Wassermann">>, <<33000, "Fische">> >>

----------------------------------------------------------------------------
(* calculate_score *)

\* The separation without the fold of line 115.
SeparationNoFold(b_lon, t_lon) == FMod(FAbs(FSub(b_lon, t_lon)), 36000)

\* Lines 114-115: diff = abs(b_lon - t_lon) % 360; if diff > 180: diff = 360 - diff.
Separation(b_lon, t_lon) ==
    LET diff == FMod(FAbs(FSub(b_lon, t_lon)), 36000)
    IN  IF FGt(diff, Num(18000)) THEN FSub(Num(36000), diff) ELSE diff

\* Line 117: abs(diff - ang) <= orb.
AspectTest(diff, rule) == FLe(FAbs(FSub(diff, Num(rule[1]))), Num(rule[2]))

\* Lines 116-122 from rule j on: the index of the first rule that matches,
\* 0 when the loop ends without a match.
RECURSIVE AspectLoop(_, _)
AspectLoop(diff, j) ==
    IF j > Len(ASPECTS) THEN 0
    ELSE IF AspectTest(diff, ASPECTS[j]) THEN j
    ELSE AspectLoop(diff, j + 1)

\* The loop started at the second rule.
FirstAspectSkipFirst(diff) == AspectLoop(diff, 2)

\* Lines 116-122: for ang, orb, val in ASPECTS: if ...: ...; break.
FirstAspect(diff) == AspectLoop(diff, 1)

\* The bonus given once when either body is a priority planet.
WeightEither(b_name, t_name) ==
    4 + (IF b_name \in PRIORITY_PLANETS \/ t_name \in PRIORITY_PLANETS THEN 1 ELSE 0)

\* Line 119, in quarters: 1.0 + (0.25 if b_name in PRIORITY_PLANETS else 0)
\* + (0.25 if t_name in PRIORITY_PLANETS else 0).
Weight(b_name, t_name) ==
    4 + (IF b_name \in PRIORITY_PLANETS THEN 1 ELSE 0)
      + (IF t_name \in PRIORITY_PLANETS THEN 1 ELSE 0)

\* Lines 117-121 for a pair whose first matching rule is j (0: none): the
\* locals score_sum and hits after the pair.
Accumulate(acc, j, b_name, t_name) ==
    IF j = 0 THEN acc
    ELSE [score_sum |-> acc.score_sum + ASPECTS[j][3] * Weight(b_name, t_name),
          hits |-> acc.hits + 1]

\* Lines 113-122 for one birth body, from the n-th transit body on (in the
\* order of PLANET_IDS); acc holds the locals score_sum and hits.  The loop
\* goes on with acc when the pair left the locals as they were and with next
\* otherwise: the comparison makes TLC compute next at every pair instead of
\* nesting 49 pending updates.
RECURSIVE TransitLoop(_, _, _, _, _)
TransitLoop(b_name, b_lon, transit, n, acc) ==
    IF n > Len(PLANET_IDS) THEN acc
    ELSE LET t_name == PLANET_IDS[n]
             diff == Separation(b_lon, transit[t_name])
             next == Accumulate(acc, FirstAspect(diff), b_name, t_name)
         IN  IF next.hits = acc.hits
             THEN TransitLoop(b_name, b_lon, transit, n + 1, acc)
             ELSE TransitLoop(b_name, b_lon, transit, n + 1, next)

\* Lines 112-122 from the m-th birth body on.
RECURSIVE BirthLoop(_, _, _, _)
BirthLoop(birth, transit, m, acc) ==
    IF m > Len(PLANET_IDS) THEN acc
    ELSE LET b_name == PLANET_IDS[m]
             next == TransitLoop(b_name, birth[b_name], transit, 1, acc)
         IN  IF next.hits = acc.hits
             THEN BirthLoop(birth, transit, m + 1, acc)
             ELSE BirthLoop(birth, transit, m + 1, next)

\* Lines 110-122: the locals score_sum (quarters) and hits after the loops.
ScoreLocals(birth, transit) ==
    BirthLoop(birth, transit, 1, [score_sum |-> 0, hits |-> 0])

\* The return of line 124 with 0.0 as the value for no hit.
ScoreResultZero(s, h) ==
    IF h > 0 THEN RoundDiv(s * Log1pTable[h], 400 * h) ELSE 0

\* Line 124, in hundredths:
\* round((score_sum / hits) * np.log1p(hits), 2) if hits > 0 else 50.0.
ScoreResult(s, h) ==
    IF h > 0 THEN RoundDiv(s * Log1pTable[h], 400 * h) ELSE 5000

\* Lines 100-124 at the return: the value returned (ret, in hundredths) and
\* the locals score_sum and hits.
CalculateScoreFrame(birth, transit) ==
    LET acc == ScoreLocals(birth, transit)
    IN  [ret |-> ScoreResult(acc.score_sum, acc.hits),
         score_sum |-> acc.score_sum,
         hits |-> acc.hits]

\* Lines 100-124: the value returned.
calculate_score(birth, transit) == CalculateScoreFrame(birth, transit).ret

----------------------------------------------------------------------------
(* get_zodiac *)

\* The band test with <= for <.
BandTestLe(degree, start) == FLe(degree, Num(start))

\* Line 137: degree < start.
BandTest(degree, start) == FLt(degree, Num(start))

\* The first sign as the value after the loop.
ZodiacFallthroughFirst == signs[1][2]

\* Line 138: return signs[-1][1].
ZodiacFallthrough == signs[Len(signs)][2]

\* Lines 136-138 from index n on (n = i + 1 for the source's 0-based i).
RECURSIVE ZodiacLoop(_, _)
ZodiacLoop(degree, n) ==
    IF n > Len(signs) THEN ZodiacFallthrough
    ELSE IF BandTest(degree, signs[n][1])
         THEN (IF n > 1 THEN signs[n - 1][2] ELSE signs[1][2])
    ELSE ZodiacLoop(degree, n + 1)

\* Lines 126-138.
get_zodiac(degree) == ZodiacLoop(FMod(degree, 36000), 1)

----------------------------------------------------------------------------
(* The ephemeris provider *)

\* What one request brings back for one instant: a longitude, a masked
\* (absent) entry of the ObsEclLon column, or no reply at all because the
\* request raised.
Val(x) == [r |-> "value", v |-> x]
Masked == [r |-> "masked", v |-> 0]
Fail == [r |-> "fail", v |-> 0]

\* The longitude the undisturbed bodies have at birth.
BirthBase == Val(0)

\* Birth replies that differ from BirthBase for one body: (body, reply).
BirthDeviations ==
    { <<"Sonne", Masked>>, <<"Mond", Val(-31500)>> }

\* The replies to the 7 requests of fetch_birth_positions: all bodies at
\* BirthBase, one body deviating, or the request of one body raising.
BirthReplies ==
    { [p \in Planets |-> BirthBase] }
    \cup { [p \in Planets |-> IF p = d[1] THEN d[2] ELSE BirthBase] : d \in BirthDeviations }
    \cup { [p \in Planets |-> IF p = q THEN Fail ELSE BirthBase] : q \in Planets }

\* One day's samples of the 7 bodies: every body at base, except body q,
\* whose sample is reply.
Day(base, q, reply) == [p \in Planets |-> IF p = q THEN reply ELSE base]

\* The days the provider may return: all bodies at 0 or all at 45 degrees,
\* with no body disturbed, with the sample of Mars or Venus missing, or with
\* the Moon at an unwrapped longitude (540 = 180 degrees).
DayCases ==
    { Day(Val(0), "Mond", Val(0)),
      Day(Val(4500), "Mond", Val(4500)),
      Day(Val(0), "Mars", Masked),
      Day(Val(4500), "Venus", Masked),
      Day(Val(0), "Mond", Val(54000)) }

Series(s) == [r |-> "series", s |-> s]
NoSeries == [r |-> "fail", s |-> <<>>]

\* The replies to the requests of fetch_year_positions: "base" is the
\* request of line 92 (its reply the timestamps), the others the 7 requests
\* of line 96.  Either every request brings a series of NDays samples, or
\* one of them raises.
YearRequests == Planets \cup {"base"}
YearReplies ==
    { [q \in YearRequests |->
          IF q = "base" THEN Series([d \in 1..NDays |-> d])
          ELSE Series([d \in 1..NDays |-> days[d][q]])] :
        days \in [1..NDays -> DayCases] }
    \cup { [q \in YearRequests |->
              IF q = f THEN NoSeries
              ELSE IF q = "base" THEN Series([d \in 1..NDays |-> d])
              ELSE Series([d \in 1..NDays |-> Val(0)])] :
            f \in YearRequests }

----------------------------------------------------------------------------
(* The fetchers *)

\* Line 79: float(eph['ObsEclLon'][0]); float() of a masked entry is nan.
FloatOf(s) == IF s.r = "masked" THEN NaN ELSE Num(s.v)

\* A missing sample filled with 0.
FilledZero(s) == IF s.r = "masked" THEN Num(0) ELSE Num(s.v)

\* Line 97: .filled(np.nan).astype(float) on one entry.
Filled(s) == IF s.r = "masked" THEN NaN ELSE Num(s.v)

\* Lines 75-80 and 152: an exception of any request leaves the function
\* and, uncaught, ends the run; otherwise birth_pos holds the 7 floats.
FetchBirthPositions ==
    /\ pc = "fetch_birth"
    /\ \E reply \in BirthReplies :
         /\ eph_birth' = reply
         /\ IF \E p \in Planets : reply[p].r = "fail"
            THEN /\ pc' = "aborted"
                 /\ UNCHANGED birth_pos
            ELSE /\ pc' = "fetch_year"
                 /\ birth_pos' = [p \in Planets |-> FloatOf(reply[p])]
    /\ UNCHANGED <<eph_year, dates, year_data, i, scores, mars_signs, venus_signs,
                   hits, score_sum, score_prozent, file_written>>
    /\ UNCHANGED fnvars

\* Lines 91-98 and 153.
FetchYearPositions ==
    /\ pc = "fetch_year"
    /\ \E reply \in YearReplies :
         /\ eph_year' = reply
         /\ IF \E q \in YearRequests : reply[q].r = "fail"
            THEN /\ pc' = "aborted"
                 /\ UNCHANGED <<dates, year_data>>
            ELSE /\ pc' = "loop"
                 /\ dates' = reply["base"].s
                 /\ year_data' = [p \in Planets |->
                        [d \in 1..Len(reply[p].s) |-> Filled(reply[p].s[d])]]
    /\ UNCHANGED <<eph_birth, birth_pos, i, scores, mars_signs, venus_signs,
                   hits, score_sum, score_prozent, file_written>>
    /\ UNCHANGED fnvars

----------------------------------------------------------------------------
(* The main run *)

\* Line 157: transit_pos = {p: year_data[p][i] for p in PLANET_IDS}, for the
\* n-th day (n = i + 1 for the source's 0-based i).
TransitPos(n) == [p \in Planets |-> year_data[p][n]]

\* Lines 156-160: one pass of the loop.
ScoreDay ==
    /\ pc = "loop"
    /\ i < Len(dates)
    /\ LET frame == CalculateScoreFrame(birth_pos, TransitPos(i + 1))
       IN  /\ scores' = Append(scores, frame.ret)
           /\ hits' = frame.hits
           /\ score_sum' = frame.score_sum
    /\ mars_signs' = Append(mars_signs, get_zodiac(year_data["Mars"][i + 1]))
    /\ venus_signs' = Append(venus_signs, get_zodiac(year_data["Venus"][i + 1]))
    /\ i' = i + 1
    /\ UNCHANGED <<pc, eph_birth, eph_year, birth_pos, dates, year_data,
                   score_prozent, file_written>>
    /\ UNCHANGED fnvars

SeqRange(s) == {s[n] : n \in 1..Len(s)}
SeqMin(s) == CHOOSE x \in SeqRange(s) : \A y \in SeqRange(s) : x <= y
SeqMax(s) == CHOOSE x \in SeqRange(s) : \A y \in SeqRange(s) : x >= y

\* The score divided by s_max instead of the range.
NormalizeByMax(raw, s_min, s_max) == FDivTimes100(raw - s_min, s_max)

\* Line 173 for one row: ((Score - s_min) / (s_max - s_min)) * 100.
Normalize(raw, s_min, s_max) == FDivTimes100(raw - s_min, s_max - s_min)

\* Lines 163-173, after the loop has ended.
NormalizeScores ==
    /\ pc = "loop"
    /\ i = Len(dates)
    /\ LET s_min == SeqMin(scores)
           s_max == SeqMax(scores)
       IN  score_prozent' = [n \in 1..Len(scores) |-> Normalize(scores[n], s_min, s_max)]
    /\ pc' = "export"
    /\ UNCHANGED <<eph_birth, eph_year, birth_pos, dates, year_data, i, scores,
                   mars_signs, venus_signs, hits, score_sum, file_written>>
    /\ UNCHANGED fnvars

\* Lines 186-217: the report is written.
Export ==
    /\ pc = "export"
    /\ file_written' = TRUE
    /\ pc' = "done"
    /\ UNCHANGED <<eph_birth, eph_year, birth_pos, dates, year_data, i, scores,
                   mars_signs, venus_signs, hits, score_sum, score_prozent>>
    /\ UNCHANGED fnvars

----------------------------------------------------------------------------
(* Direct calls of the pure functions *)

\* The longitudes the direct calls are made with: around every multiple of
\* 30 degrees from -MaxBand*30 to MaxBand*30, negative and above 360 included.
FnLons == { 3000 * b + d : b \in (-MaxBand)..MaxBand, d \in {0, 1, 800, 2990, 2999} }

\* get_zodiac(a) and get_zodiac(a + 360).
CallGetZodiac ==
    /\ fn_pc = "ready"
    /\ fn_out' = get_zodiac(Num(fn_a))
    /\ fn_out2' = get_zodiac(Num(fn_a + 36000))
    /\ fn_pc' = "zodiac"
    /\ UNCHANGED <<fn_a, fn_b>>
    /\ UNCHANGED mainvars

\* Lines 114-115 on (a, b) and on (b, a).
CallSeparation ==
    /\ fn_pc = "ready"
    /\ fn_out' = Separation(Num(fn_a), Num(fn_b))
    /\ fn_out2' = Separation(Num(fn_b), Num(fn_a))
    /\ fn_pc' = "separation"
    /\ UNCHANGED <<fn_a, fn_b>>
    /\ UNCHANGED mainvars

----------------------------------------------------------------------------
(* Specifications *)

MainInit ==
    /\ pc = "fetch_birth"
    /\ eph_birth = <<>>
    /\ eph_year = <<>>
    /\ birth_pos = <<>>
    /\ dates = <<>>
    /\ year_data = <<>>
    /\ i = 0
    /\ scores = <<>>
    /\ mars_signs = <<>>
    /\ venus_signs = <<>>
    /\ hits = 0
    /\ score_sum = 0
    /\ score_prozent = <<>>
    /\ file_written = FALSE

FnOff ==
    /\ fn_pc = "off"
    /\ fn_a = 0
    /\ fn_b = 0
    /\ fn_out = NaN
    /\ fn_out2 = NaN

\* The run of the script.
Init == MainInit /\ FnOff

Next ==
    \/ FetchBirthPositions
    \/ FetchYearPositions
    \/ ScoreDay
    \/ NormalizeScores
    \/ Export

Spec == Init /\ [][Next]_vars

\* Direct calls of get_zodiac and of the separation on bounded longitudes.
FnInit ==
    /\ pc = "off"
    /\ eph_birth = <<>>
    /\ eph_year = <<>>
    /\ birth_pos = <<>>
    /\ dates = <<>>
    /\ year_data = <<>>
    /\ i = 0
    /\ scores = <<>>
    /\ mars_signs = <<>>
    /\ venus_signs = <<>>
    /\ hits = 0
    /\ score_sum = 0
    /\ score_prozent = <<>>
    /\ file_written = FALSE
    /\ fn_pc = "ready"
    /\ fn_a \in FnLons
    /\ fn_b \in FnLons
    /\ fn_out = NaN
    /\ fn_out2 = NaN

FnNext ==
    \/ CallGetZodiac
    \/ CallSeparation

SpecFn == FnInit /\ [][FnNext]_vars

----------------------------------------------------------------------------
(* Properties *)

\* The statements below restate the scorer from the rule table alone, on
\* plain integers, without the loops of calculate_score.

\* Whether the run has scored at least one day and is still in its loop; the
\* day scored last is day i.
DayScored == pc = "loop" /\ i > 0

\* Whether the normalised column has been computed.
Normalized == pc \in {"export", "done"}

\* The minimal angle between two longitudes x and y (hundredths of a degree).
MinimalAngle(x, y) ==
    LET d == AbsInt(x - y) % 36000
    IN  IF d > 18000 THEN 36000 - d ELSE d

\* The rules (indices into ASPECTS) whose orb holds the pair's separation; a
\* pair with a missing longitude is within no orb.
RulesWithin(a, b) ==
    IF IsNum(a) /\ IsNum(b)
    THEN { j \in 1..Len(ASPECTS) :
             AbsInt(MinimalAngle(a.v, b.v) - ASPECTS[j][1]) <= ASPECTS[j][2] }
    ELSE {}

\* The ordered (birth body, transit body) pairs of day n within some orb.
PairsWithin(n) ==
    { pr \in Planets \X Planets :
        RulesWithin(birth_pos[pr[1]], year_data[pr[2]][n]) # {} }

\* The bodies whose sample of day n the provider returned as missing.
MissingOn(n) == { p \in Planets : eph_year[p].s[n].r = "masked" }

\* C1: when every raw score of the year is the same, no day's normalised
\* score is the result of a division by zero: each is a defined number.
C1_DegenerateRangeHandled ==
    (Normalized /\ SeqMax(scores) = SeqMin(scores))
        => \A n \in 1..Len(score_prozent) : IsNum(score_prozent[n])

\* C2: on a day with a missing transit sample the scoring does not end the
\* run, no pair of a missing body is a hit (hits <= 7 * number of present
\* bodies, so <= 42 with one missing), the pairs of the present bodies are
\* hits exactly when they are within an orb, and with no hit the day's score
\* is 50.0.
C2_MissingSampleNoHits ==
    (DayScored /\ MissingOn(i) # {})
        => /\ Len(scores) = i
           /\ hits <= Len(PLANET_IDS) * Cardinality(Planets \ MissingOn(i))
           /\ hits = Cardinality({ pr \in Planets \X (Planets \ MissingOn(i)) :
                                     RulesWithin(birth_pos[pr[1]],
                                                 Num(eph_year[pr[2]].s[i].v)) # {} })
           /\ (hits = 0 => scores[i] = 5000)

\* C2 witness: a day with one missing body has been scored with 42 hits and
\* further days follow.
C2_Witness ==
    /\ DayScored
    /\ Cardinality(MissingOn(i)) = 1
    /\ hits = 42
    /\ i < Len(dates)

\* C3: in every run that writes the report, each of the 7 birth longitudes
\* is a value the provider returned.
C3_BirthAllOrNothing ==
    file_written
        => \A p \in Planets :
              /\ eph_birth[p].r = "value"
              /\ birth_pos[p] = Num(eph_birth[p].v)

\* The fixed list of signs in band order.
SignOrder ==
    <<"Widder", "Stier", "Zwillinge", "Krebs", "Loewe", "Jungfrau", "Waage",
      "Skorpion", "Schuetze", "Steinbock", "Wassermann", "Fische">>

\* C4: get_zodiac(L) is the floor((L mod 360) / 30)-th sign of the fixed
\* list, for negative L and L >= 360 too; a band's lower boundary belongs to
\* the band it starts; 0 and 29.9 give Widder, 30 Stier, 359.99 Fische; L and
\* L + 360 give the same sign.
C4_ZodiacBand ==
    fn_pc = "zodiac"
        => /\ fn_out = SignOrder[((fn_a % 36000) \div 3000) + 1]
           /\ fn_out2 = fn_out
           /\ (fn_a % 3000 = 0 => fn_out = SignOrder[((fn_a \div 3000) % 12) + 1])
           /\ (fn_a = 0 => fn_out = "Widder")
           /\ (fn_a = 2990 => fn_out = "Widder")
           /\ (fn_a = 3000 => fn_out = "Stier")
           /\ (fn_a = 35999 => fn_out = "Fische")

\* C4 witness: get_zodiac has been called with -0.01 degrees and returned
\* Fische.
C4_Witness ==
    /\ fn_pc = "zodiac"
    /\ fn_a = -1
    /\ fn_out = "Fische"

\* C5: when no ordered pair of the day is within any rule's orb, the hit
\* counter is 0 and calculate_score returns exactly 50.0.
C5_NeutralScore ==
    (DayScored /\ PairsWithin(i) = {})
        => /\ hits = 0
           /\ scores[i] = 5000

\* C5 witness: a day with every transit body 45 degrees from every birth
\* body has been scored 50.0.
C5_Witness ==
    /\ DayScored
    /\ \A p \in Planets : birth_pos[p] = Num(0) /\ year_data[p][i] = Num(4500)
    /\ scores[i] = 5000

\* C6: for a year whose raw scores are not all equal, every normalised score
\* is a number in [0, 100], the least is exactly 0 and the greatest exactly
\* 100.
C6_NormalizedRange ==
    (Normalized /\ SeqMax(scores) > SeqMin(scores))
        => /\ \A n \in 1..Len(score_prozent) :
                /\ IsNum(score_prozent[n])
                /\ score_prozent[n].v >= 0
                /\ score_prozent[n].v <= 1000000
           /\ \E n \in 1..Len(score_prozent) : score_prozent[n] = Num(0)
           /\ \E n \in 1..Len(score_prozent) : score_prozent[n] = Num(1000000)
           /\ \A n \in 1..Len(score_prozent) :
                /\ (scores[n] = SeqMin(scores) => score_prozent[n] = Num(0))
                /\ (scores[n] = SeqMax(scores) => score_prozent[n] = Num(1000000))

\* C6 witness: a year with three different raw scores has been normalised,
\* one day strictly between 0 and 100.
C6_Witness ==
    /\ Normalized
    /\ SeqMax(scores) > SeqMin(scores)
    /\ \E n \in 1..Len(score_prozent) :
         score_prozent[n].v > 0 /\ score_prozent[n].v < 1000000

\* C7: the separation of any two longitudes, negative or above 360 included,
\* lies in [0, 180] and is the same for (a, b) and (b, a).
C7_SeparationRangeSymmetric ==
    fn_pc = "separation"
        => /\ IsNum(fn_out)
           /\ fn_out.v >= 0
           /\ fn_out.v <= 18000
           /\ fn_out = fn_out2

\* C7 witness: the separation of -30 and 390 degrees has been computed (60).
C7_Witness ==
    /\ fn_pc = "separation"
    /\ fn_a = -3000
    /\ fn_b = 39000
    /\ fn_out = Num(6000)

\* C8: every ordered pair is given at most one rule, the first in table
\* order whose orb holds its separation (none when no orb does); the pair
\* counts at most once, so hits <= 49 and hits <= the number of pairs within
\* an orb; a pair with identical longitudes is given conjunction, the only
\* rule whose orb holds it.
C8_FirstRuleOnly ==
    DayScored
        => /\ hits <= 49
           /\ hits <= Cardinality(PairsWithin(i))
           /\ \A b \in Planets : \A t \in Planets :
                LET within == RulesWithin(birth_pos[b], year_data[t][i])
                    given == FirstAspect(Separation(birth_pos[b], year_data[t][i]))
                IN  /\ (within = {} => given = 0)
                    /\ (within # {} => given \in within /\ \A j \in within : given <= j)
                    /\ ((IsNum(birth_pos[b]) /\ birth_pos[b] = year_data[t][i])
                          => given = 1 /\ within = {1})

\* C8 witness: a day on which the birth Sun and the transit Sun have the
\* same longitude has been scored.
C8_Witness ==
    /\ DayScored
    /\ IsNum(birth_pos["Sonne"])
    /\ birth_pos["Sonne"] = year_data["Sonne"][i]
    /\ hits > 0

\* The weight of a pair in quarters: 1.0, 1.25 or 1.5.
PairWeight(b, t) ==
    4 + Cardinality({b} \cap {"Sonne", "Venus", "Mars"})
      + Cardinality({t} \cap {"Sonne", "Venus", "Mars"})

\* What the pair (b, t) of day n adds to the accumulator, in quarters.
PairValue(b, t, n) ==
    LET within == RulesWithin(birth_pos[b], year_data[t][n])
    IN  IF within = {} THEN 0
        ELSE ASPECTS[CHOOSE j \in within : \A k \in within : j <= k][3] * PairWeight(b, t)

\* The sum of PairValue over birth body b and the first k transit bodies, and
\* over the first m birth bodies and all transit bodies.
RECURSIVE RowValue(_, _, _)
RowValue(b, k, n) ==
    IF k = 0 THEN 0 ELSE PairValue(b, PLANET_IDS[k], n) + RowValue(b, k - 1, n)
RECURSIVE DayValue(_, _)
DayValue(m, n) ==
    IF m = 0 THEN 0
    ELSE RowValue(PLANET_IDS[m], Len(PLANET_IDS), n) + DayValue(m - 1, n)

\* C9: after all 49 ordered pairs, same-named pairs included, hits is the
\* number of pairs within an orb and the accumulator is the sum over them of
\* base score * weight; with all 14 longitudes equal, hits = 49 and the
\* accumulator is 5950.
C9_HitsAndAccumulator ==
    DayScored
        => /\ hits = Cardinality(PairsWithin(i))
           /\ score_sum = DayValue(Len(PLANET_IDS), i)
           /\ ((\A p \in Planets :
                  IsNum(birth_pos[p]) /\ birth_pos[p] = birth_pos["Sonne"]
                                       /\ year_data[p][i] = birth_pos["Sonne"])
                 => hits = 49 /\ score_sum = 4 * 5950)

\* C9 witness: a day with all 7 birth and all 7 transit bodies at the same
\* longitude has been scored with 49 hits and 5950 accumulated.
C9_Witness ==
    /\ DayScored
    /\ \A p \in Planets : birth_pos[p] = Num(0) /\ year_data[p][i] = Num(0)
    /\ hits = 49
    /\ score_sum = 4 * 5950

\* C10: a day whose Mars or Venus sample is missing carries "Fische" as the
\* sign of that body, and the run has not ended on it.
C10_MissingSampleIsFische ==
    \A n \in 1..i :
        /\ (eph_year["Mars"].s[n].r = "masked" => mars_signs[n] = "Fische")
        /\ (eph_year["Venus"].s[n].r = "masked" => venus_signs[n] = "Fische")
        /\ Len(mars_signs) = i
        /\ Len(venus_signs) = i
        /\ pc # "aborted"

\* C10 witness: the report has been written for a year with a day whose Mars
\* sample was missing and whose Mars label is Fische.
C10_Witness ==
    /\ pc = "done"
    /\ \E n \in 1..Len(dates) :
         /\ eph_year["Mars"].s[n].r = "masked"
         /\ year_data["Mars"][n] = NaN
         /\ mars_signs[n] = "Fische"

====
